---- MODULE Spec2Model ----
(***************************************************************************)
(* Model of src/firebase_client.py: TradeRecord.to_dict and the            *)
(* FirebaseStateManager with its two backends (Firestore / local JSON      *)
(* files).  Every handler is one action; the environment (library          *)
(* availability, file system, remote store) is a nondeterministic input.   *)
(***************************************************************************)
EXTENDS Integers, Sequences, FiniteSets, TLC

VARIABLES
    FIREBASE_AVAILABLE, \* module flag set by the import at lines 12-19
    phase,              \* "new" | "returned" | "raised": outcome of __init__
    _db,                \* self._db: NoDb or Client
    _initialized,       \* self._initialized
    files,              \* the two files <fallback_path>_<data_type>.json
    remoteTrades,       \* Firestore collection 'trades': set of [id, doc]
    remotePortfolio,    \* Firestore collection 'portfolio': set of [id, doc]
    now,                \* the clock read by datetime.now()
    ncalls,             \* number of operations called so far
    call,               \* the last call: operation, arguments, injected fault
    ret,                \* what the last call gave its caller
    okTrades,           \* history: data of every save_trade that returned True
    okPortfolio,        \* history: snapshot of every save_portfolio_state that returned True
    files0,             \* history: the files as they were before construction
    mode0,              \* history: the mode __init__ ended in
    writer,             \* two-writer specification: each writer's position and locals
    self,               \* to_dict specification: the TradeRecord
    data                \* to_dict specification: the mapping to_dict returned

vars == <<FIREBASE_AVAILABLE, phase, _db, _initialized, files, remoteTrades,
          remotePortfolio, now, ncalls, call, ret, okTrades, okPortfolio,
          files0, mode0, writer, self, data>>

(* ------------------------------ bounds --------------------------------- *)
MaxCalls == 5
MaxLimit == 10
MaxRaceCalls == 2

(* ------------------------------ values --------------------------------- *)
None == [kind |-> "None"]
Dict(items) == [kind |-> "dict", items |-> items]
EmptyDict == Dict({})
\* Python truthiness of an Optional[Dict]: None and {} are falsy.
Truthy(v) == v # None /\ v.items # {}

NoDb == "None"
Client == "firestore.client"
NoSymbol == "<None>"
NoPath == "<None>"

Fields == {"symbol", "action", "price", "quantity", "timestamp", "strategy",
           "confidence", "portfolio_value", "metadata"}

TradeRecord(symbol, action, price, quantity, timestamp, confidence, metadata) ==
    [symbol |-> symbol, action |-> action, price |-> price, quantity |-> quantity,
     timestamp |-> timestamp, strategy |-> "momentum", confidence |-> confidence,
     portfolio_value |-> 1000, metadata |-> metadata]

\* dataclasses.asdict: a fresh mapping with one key per field (values copied).
asdict(rec) == [f \in Fields |-> rec[f]]

to_dict_NoDefault(rec) == asdict(rec)

to_dict(rec) ==
    LET d == asdict(rec)
    IN  [d EXCEPT !["timestamp"] = rec.timestamp,
                  !["metadata"] = IF Truthy(rec.metadata) THEN rec.metadata ELSE EmptyDict]

(* ----------------------------- local files ----------------------------- *)
Absent == [state |-> "absent", arr |-> <<>>]
Corrupt == [state |-> "corrupt", arr |-> <<>>]
Array(a) == [state |-> "array", arr |-> a]

Raise(f) == [raised |-> TRUE, existing |-> <<>>, file |-> f]

ReadExisting_Forget(f, fault) == [raised |-> FALSE, existing |-> <<>>, file |-> f]

\* existing = []; if os.path.exists(filepath): existing = json.load(f)
ReadExisting(f, fault) ==
    IF f.state = "absent" THEN [raised |-> FALSE, existing |-> <<>>, file |-> f]
    ELSE IF f.state = "corrupt" \/ fault = "read" THEN Raise(f)
    ELSE [raised |-> FALSE, existing |-> f.arr, file |-> f]

AppendData_Drop(existing, d) == existing

\* existing.append(data)
AppendData(existing, d) == Append(existing, d)

\* write the full array back; a failed open leaves the file as it was, a
\* failure while dumping leaves a truncated file that is no JSON array.
WriteBack(f, arr, fault) ==
    CASE fault = "open" -> Raise(f)
      [] fault = "partial" -> Raise(Corrupt)
      [] OTHER -> [raised |-> FALSE, existing |-> arr, file |-> Array(arr)]

_save_to_local_file(f, d, fault) ==
    LET r == ReadExisting(f, fault)
    IN  IF r.raised THEN r ELSE WriteBack(f, AppendData(r.existing, d), fault)

\* read and parse the file's array; absent file => empty sequence
_load_from_local_file(f, fault) ==
    IF f.state = "absent" THEN [raised |-> FALSE, existing |-> <<>>, file |-> f]
    ELSE IF f.state = "corrupt" \/ fault = "read" THEN Raise(f)
    ELSE [raised |-> FALSE, existing |-> f.arr, file |-> f]

\* Python's seq[:k]
Slice(s, k) ==
    LET n == Len(s)
        m == IF k >= 0 THEN (IF k < n THEN k ELSE n)
                       ELSE (IF n + k > 0 THEN n + k ELSE 0)
    IN  SubSeq(s, 1, m)

(* ----------------------------- remote store ---------------------------- *)
\* CollectionReference.add: a new document under a fresh auto-generated id.
CollectionAdd(coll, d) == coll \cup {[id |-> Cardinality(coll) + 1, doc |-> d]}

\* DocumentReference.set without merge: the document is replaced.
DocumentSet(coll, id, d) == {x \in coll : x.id # id} \cup {[id |-> id, doc |-> d]}

RECURSIVE OrderByTimestampDesc(_)
OrderByTimestampDesc(S) ==
    IF S = {} THEN <<>>
    ELSE LET x == CHOOSE y \in S : \A z \in S :
                      \/ y.doc.timestamp > z.doc.timestamp
                      \/ y.doc.timestamp = z.doc.timestamp /\ y.id >= z.id
         IN  <<x.doc>> \o OrderByTimestampDesc(S \ {x})

\* order_by('timestamp', DESCENDING) [.where('symbol', '==', symbol)] .limit(limit)
RemoteQuery(coll, symbol, limit) ==
    LET hits == IF symbol # NoSymbol THEN {x \in coll : x.doc.symbol = symbol} ELSE coll
    IN  Slice(OrderByTimestampDesc(hits), limit)

\* self._db.collection('trades').add(data)
RemoteSaveTrade(coll, d) == CollectionAdd(coll, d)

RemoteSavePortfolio_PerSnapshot(coll, p) ==
    DocumentSet(coll, ToString(p.last_updated), p)

\* self._db.collection('portfolio').document('current').set(portfolio)
RemoteSavePortfolio(coll, p) == DocumentSet(coll, "current", p)

ModeOf(db, initialized) ==
    IF db # NoDb THEN "remote" ELSE IF initialized THEN "local" ELSE "none"

(* ----------------------------- construction ---------------------------- *)
PathExists(path) == path = "creds.json"

\* os.makedirs is called outside any try block: when it raises (mkdirOk
\* false; like every other I/O fault, one failing call, not a lasting state
\* of the file system) the exception leaves __init__ and _initialized stays
\* False.
_setup_local_fallback(mkdirOk) ==
    [raised |-> ~mkdirOk, _db |-> NoDb, _initialized |-> mkdirOk]

__init__(credentials_path, initOk, mkdirOk) ==
    IF FIREBASE_AVAILABLE /\ credentials_path \notin {NoPath, ""}
                          /\ PathExists(credentials_path)
    THEN IF initOk THEN [raised |-> FALSE, _db |-> Client, _initialized |-> TRUE]
                   ELSE _setup_local_fallback(mkdirOk)
    ELSE _setup_local_fallback(mkdirOk)

(* ------------------------------ operations ----------------------------- *)
\* the try block of save_trade
save_trade_try(trade, fault) ==
    IF trade = None THEN [raised |-> TRUE, files |-> files, trades |-> remoteTrades]
    ELSE LET d == to_dict(trade)
         IN  IF _db # NoDb
             THEN IF fault = "remote"
                  THEN [raised |-> TRUE, files |-> files, trades |-> remoteTrades]
                  ELSE [raised |-> FALSE, files |-> files,
                        trades |-> RemoteSaveTrade(remoteTrades, d)]
             ELSE LET r == _save_to_local_file(files.trades, d, fault)
                  IN  [raised |-> r.raised,
                       files |-> [files EXCEPT !.trades = r.file],
                       trades |-> remoteTrades]

save_trade_NoCatch(trade, fault) ==
    IF ~_initialized
    THEN [raised |-> FALSE, bool |-> FALSE, files |-> files, trades |-> remoteTrades]
    ELSE LET b == save_trade_try(trade, fault)
         IN  [raised |-> b.raised, bool |-> ~b.raised, files |-> b.files,
              trades |-> b.trades]

save_trade(trade, fault) ==
    IF ~_initialized
    THEN [raised |-> FALSE, bool |-> FALSE, files |-> files, trades |-> remoteTrades]
    ELSE LET b == save_trade_try(trade, fault)
         IN  [raised |-> FALSE, bool |-> ~b.raised, files |-> b.files, trades |-> b.trades]

\* portfolio['last_updated'] = datetime.now()
SetLastUpdated(portfolio, t) ==
    [k \in DOMAIN portfolio \cup {"last_updated"} |->
        IF k = "last_updated" THEN t ELSE portfolio[k]]

save_portfolio_state_Replace(portfolio, fault) ==
    IF portfolio = None
    THEN [raised |-> FALSE, bool |-> FALSE, files |-> files, portfolio |-> remotePortfolio]
    ELSE LET p == SetLastUpdated(portfolio, now)
         IN  IF _db # NoDb
             THEN IF fault = "remote"
                  THEN [raised |-> FALSE, bool |-> FALSE, files |-> files,
                        portfolio |-> remotePortfolio]
                  ELSE [raised |-> FALSE, bool |-> TRUE, files |-> files,
                        portfolio |-> RemoteSavePortfolio(remotePortfolio, p)]
             ELSE LET r == WriteBack(files.portfolio, <<p>>, fault)
                  IN  [raised |-> FALSE, bool |-> ~r.raised,
                       files |-> [files EXCEPT !.portfolio = r.file],
                       portfolio |-> remotePortfolio]

save_portfolio_state(portfolio, fault) ==
    IF portfolio = None
    THEN [raised |-> FALSE, bool |-> FALSE, files |-> files, portfolio |-> remotePortfolio]
    ELSE LET p == SetLastUpdated(portfolio, now)
         IN  IF _db # NoDb
             THEN IF fault = "remote"
                  THEN [raised |-> FALSE, bool |-> FALSE, files |-> files,
                        portfolio |-> remotePortfolio]
                  ELSE [raised |-> FALSE, bool |-> TRUE, files |-> files,
                        portfolio |-> RemoteSavePortfolio(remotePortfolio, p)]
             ELSE LET r == _save_to_local_file(files.portfolio, p, fault)
                  IN  [raised |-> FALSE, bool |-> ~r.raised,
                       files |-> [files EXCEPT !.portfolio = r.file],
                       portfolio |-> remotePortfolio]

LocalRecent_Filter(symbol, limit, arr) ==
    Slice(SelectSeq(arr, LAMBDA d : symbol = NoSymbol \/ d.symbol = symbol), limit)

\* self._load_from_local_file('trades')[:limit]
LocalRecent(symbol, limit, arr) == Slice(arr, limit)

get_recent_trades(symbol, limit, fault) ==
    IF _db # NoDb
    THEN IF fault = "remote" THEN [raised |-> FALSE, list |-> <<>>]
         ELSE [raised |-> FALSE, list |-> RemoteQuery(remoteTrades, symbol, limit)]
    ELSE LET r == _load_from_local_file(files.trades, fault)
         IN  IF r.raised THEN [raised |-> FALSE, list |-> <<>>]
             ELSE [raised |-> FALSE, list |-> LocalRecent(symbol, limit, r.existing)]

(* ------------------------------- inputs -------------------------------- *)
AAPL == TradeRecord("AAPL", "BUY", 100, 1, 1, 1, None)
MSFT == TradeRecord("MSFT", "SELL", 200, 1, 2, 1, Dict({<<"note", "x">>}))
TradeInputs == {AAPL, MSFT, None}
PortfolioInputs == {[cash |-> 100], [cash |-> 100, last_updated |-> 0], None}
SymbolInputs == {NoSymbol, "AAPL", "MSFT"}
Limits == {0, 2, MaxLimit}
CredentialInputs == {NoPath, "", "missing.json", "creds.json"}
\* the trades file of a fresh installation, or the one an earlier run left behind
InitialTradeFiles == {Absent, Array(<<to_dict(AAPL), to_dict(AAPL), to_dict(AAPL)>>)}
InitialPortfolioFiles == {Absent}

\* The faults the environment can inject into a write of files[dataType] or
\* into a remote call, in the current mode.
SaveFaults(dataType) ==
    {"none"} \cup
    (IF _db # NoDb THEN {"remote"}
     ELSE CASE files[dataType].state = "array" -> {"read", "open", "partial"}
            [] files[dataType].state = "absent" -> {"open", "partial"}
            [] OTHER -> {})

LoadFaults ==
    {"none"} \cup
    (IF _db # NoDb THEN {"remote"}
     ELSE IF files.trades.state = "array" THEN {"read"} ELSE {})

Writers == {1, 2}
IdleWriter == [pc |-> "idle", existing |-> <<>>, data |-> None, ret |-> FALSE, calls |-> 0]

(* -------------------------------- state -------------------------------- *)
InitCommon ==
    /\ remoteTrades = {}
    /\ remotePortfolio = {}
    /\ now = 1
    /\ ncalls = 0
    /\ call = [op |-> "none"]
    /\ ret = [raised |-> FALSE, bool |-> FALSE, list |-> <<>>]
    /\ okTrades = <<>>
    /\ okPortfolio = <<>>
    /\ files0 = files
    /\ mode0 = ModeOf(_db, _initialized)
    /\ writer = [w \in Writers |-> IdleWriter]

Init ==
    /\ FIREBASE_AVAILABLE \in BOOLEAN
    /\ phase = "new"
    /\ _db = NoDb
    /\ _initialized = FALSE
    /\ files \in [trades : InitialTradeFiles, portfolio : InitialPortfolioFiles]
    /\ self = None
    /\ data = None
    /\ InitCommon

\* phase "raised": __init__ propagated an exception.  The object then has
\* _db None and _initialized False; the operations stay callable on it.
Construct ==
    /\ phase = "new"
    /\ \E credentials_path \in CredentialInputs, initOk \in BOOLEAN, mkdirOk \in BOOLEAN :
          LET r == __init__(credentials_path, initOk, mkdirOk)
          IN  /\ _db' = r._db
              /\ _initialized' = r._initialized
              /\ phase' = IF r.raised THEN "raised" ELSE "returned"
              /\ mode0' = ModeOf(r._db, r._initialized)
              /\ call' = [op |-> "__init__", credentials_path |-> credentials_path]
              /\ ret' = [raised |-> r.raised, bool |-> FALSE, list |-> <<>>]
    /\ UNCHANGED <<FIREBASE_AVAILABLE, files, remoteTrades, remotePortfolio, now,
                   ncalls, okTrades, okPortfolio, files0, writer, self, data>>

SaveTrade ==
    /\ phase # "new"
    /\ ncalls < MaxCalls
    /\ \E trade \in TradeInputs, fault \in SaveFaults("trades") :
          LET r == save_trade(trade, fault)
          IN  /\ files' = r.files
              /\ remoteTrades' = r.trades
              /\ call' = [op |-> "save_trade", trade |-> trade, fault |-> fault]
              /\ ret' = [raised |-> r.raised, bool |-> r.bool, list |-> <<>>]
              /\ okTrades' = IF ~r.raised /\ r.bool
                             THEN Append(okTrades, to_dict(trade)) ELSE okTrades
    /\ ncalls' = ncalls + 1
    /\ UNCHANGED <<FIREBASE_AVAILABLE, phase, _db, _initialized, remotePortfolio, now,
                   okPortfolio, files0, mode0, writer, self, data>>

SavePortfolioState ==
    /\ phase # "new"
    /\ ncalls < MaxCalls
    /\ \E portfolio \in PortfolioInputs, fault \in SaveFaults("portfolio") :
          LET r == save_portfolio_state(portfolio, fault)
          IN  /\ files' = r.files
              /\ remotePortfolio' = r.portfolio
              /\ call' = [op |-> "save_portfolio_state", portfolio |-> portfolio,
                          fault |-> fault, at |-> now]
              /\ ret' = [raised |-> r.raised, bool |-> r.bool, list |-> <<>>]
              /\ okPortfolio' = IF ~r.raised /\ r.bool
                                THEN Append(okPortfolio, SetLastUpdated(portfolio, now))
                                ELSE okPortfolio
    /\ now' = now + 1
    /\ ncalls' = ncalls + 1
    /\ UNCHANGED <<FIREBASE_AVAILABLE, phase, _db, _initialized, remoteTrades,
                   okTrades, files0, mode0, writer, self, data>>

GetRecentTrades ==
    /\ phase # "new"
    /\ ncalls < MaxCalls
    /\ \E symbol \in SymbolInputs, limit \in Limits, fault \in LoadFaults :
          LET r == get_recent_trades(symbol, limit, fault)
          IN  /\ call' = [op |-> "get_recent_trades", symbol |-> symbol,
                          limit |-> limit, fault |-> fault]
              /\ ret' = [raised |-> r.raised, bool |-> FALSE, list |-> r.list]
    /\ ncalls' = ncalls + 1
    /\ UNCHANGED <<FIREBASE_AVAILABLE, phase, _db, _initialized, files, remoteTrades,
                   remotePortfolio, now, okTrades, okPortfolio, files0, mode0, writer,
                   self, data>>

Next == Construct \/ SaveTrade \/ SavePortfolioState \/ GetRecentTrades

Spec == Init /\ [][Next]_vars

(* ------------- two writers on one fallback path (local mode) ----------- *)
\* Each writer runs save_trade; the read and the write-back of
\* _save_to_local_file are separate steps, as nothing in the code locks the
\* file or makes the read-modify-write atomic.
InitRace ==
    /\ FIREBASE_AVAILABLE = FALSE
    /\ phase = "returned"
    /\ _db = NoDb
    /\ _initialized = TRUE
    /\ files \in [trades : InitialTradeFiles, portfolio : InitialPortfolioFiles]
    /\ self = None
    /\ data = None
    /\ InitCommon

RaceRead(w) ==
    /\ writer[w].pc = "idle"
    /\ writer[w].calls < MaxRaceCalls
    /\ _initialized
    /\ \E trade \in TradeInputs \ {None}, fault \in {"none", "read"} :
          LET r == ReadExisting(files.trades, fault)
          IN  writer' = [writer EXCEPT ![w] =
                  [pc |-> IF r.raised THEN "done" ELSE "read",
                   existing |-> r.existing, data |-> to_dict(trade),
                   ret |-> FALSE, calls |-> @.calls + 1]]
    /\ UNCHANGED <<FIREBASE_AVAILABLE, phase, _db, _initialized, files, remoteTrades,
                   remotePortfolio, now, ncalls, call, ret, okTrades, okPortfolio,
                   files0, mode0, self, data>>

RaceWrite(w) ==
    /\ writer[w].pc = "read"
    /\ \E fault \in {"none", "open", "partial"} :
          LET r == WriteBack(files.trades,
                             AppendData(writer[w].existing, writer[w].data), fault)
          IN  /\ files' = [files EXCEPT !.trades = r.file]
              /\ writer' = [writer EXCEPT ![w].pc = "done", ![w].ret = ~r.raised]
              /\ okTrades' = IF r.raised THEN okTrades
                             ELSE Append(okTrades, writer[w].data)
    /\ UNCHANGED <<FIREBASE_AVAILABLE, phase, _db, _initialized, remoteTrades,
                   remotePortfolio, now, ncalls, call, ret, okPortfolio, files0,
                   mode0, self, data>>

RaceReturn(w) ==
    /\ writer[w].pc = "done"
    /\ writer[w].calls < MaxRaceCalls
    /\ writer' = [writer EXCEPT ![w].pc = "idle"]
    /\ UNCHANGED <<FIREBASE_AVAILABLE, phase, _db, _initialized, files, remoteTrades,
                   remotePortfolio, now, ncalls, call, ret, okTrades, okPortfolio,
                   files0, mode0, self, data>>

NextRace == \E w \in Writers : RaceRead(w) \/ RaceWrite(w) \/ RaceReturn(w)

SpecRace == InitRace /\ [][NextRace]_vars

(* ------------------------ TradeRecord.to_dict -------------------------- *)
MetadataInputs == {None, EmptyDict, Dict({<<"note", "x">>}),
                   Dict({<<"note", "x">>, <<"retries", 2>>})}
AllTrades == {TradeRecord(s, a, p, 1, t, 1, m) :
                s \in {"AAPL", "MSFT"}, a \in {"BUY", "SELL", "HOLD"},
                p \in {100, 200}, t \in {1, 2}, m \in MetadataInputs}

InitToDict ==
    /\ FIREBASE_AVAILABLE = FALSE
    /\ phase = "new"
    /\ _db = NoDb
    /\ _initialized = FALSE
    /\ files = [trades |-> Absent, portfolio |-> Absent]
    /\ self \in AllTrades
    /\ data = None
    /\ InitCommon

ToDict ==
    /\ data = None
    /\ data' = to_dict(self)
    /\ UNCHANGED <<FIREBASE_AVAILABLE, phase, _db, _initialized, files, remoteTrades,
                   remotePortfolio, now, ncalls, call, ret, okTrades, okPortfolio,
                   files0, mode0, writer, self>>

NextToDict == ToDict

SpecToDict == InitToDict /\ [][NextToDict]_vars

(* ------------------------------ properties ----------------------------- *)
Mode == ModeOf(_db, _initialized)
RemoteMode == Mode = "remote"
LocalMode == Mode = "local"
IsSave == call.op \in {"save_trade", "save_portfolio_state"}
Last(seq) == seq[Len(seq)]
\* the record the last save call was asked to store
SavedRecord ==
    IF call.op = "save_trade" THEN to_dict(call.trade)
    ELSE SetLastUpdated(call.portfolio, call.at)
SaveArgument == IF call.op = "save_trade" THEN call.trade ELSE call.portfolio
SaveFile == IF call.op = "save_trade" THEN files.trades ELSE files.portfolio

\* C1: constructing a FirebaseStateManager never raises to the caller: for
\* every combination of library availability, credentials path, remote
\* initialization outcome and makedirs outcome, construction ends with the
\* manager in remote mode or in local mode.
C1_ConstructionNeverRaises ==
    phase # "new" => (phase = "returned" /\ (RemoteMode \/ LocalMode))

\* C2: on a manager whose initialized flag is false, save_trade returns
\* false, save_portfolio_state returns false and get_recent_trades returns an
\* empty sequence, none of them raising.
C2_UninitializedFailsGracefully ==
    (~_initialized /\ call.op \in {"save_trade", "save_portfolio_state",
                                   "get_recent_trades"})
    => /\ ~ret.raised
       /\ IsSave => ret.bool = FALSE
       /\ call.op = "get_recent_trades" => ret.list = <<>>

\* C3: for save_trade and save_portfolio_state in either mode, a failure of
\* serialization (no record given) or of the backend write (remote call
\* fails; local file cannot be read, parsed, opened or fully written) gives a
\* false return and no exception, and a true return implies that the record
\* is in the active backend: the newest document of the remote collection
\* (resp. portfolio/current), or the last entry of the local file's array.
C3_FailureIsFalseReturn ==
    IsSave =>
       /\ ~ret.raised
       /\ ( \/ call.fault # "none"
            \/ SaveArgument = None
            \/ (_db = NoDb /\ SaveFile.state = "corrupt") ) => ret.bool = FALSE
       /\ ret.bool = TRUE =>
            IF _db # NoDb
            THEN IF call.op = "save_trade"
                 THEN [id |-> Cardinality(remoteTrades), doc |-> SavedRecord]
                          \in remoteTrades
                 ELSE [id |-> "current", doc |-> SavedRecord] \in remotePortfolio
            ELSE /\ SaveFile.state = "array"
                 /\ Len(SaveFile.arr) > 0
                 /\ Last(SaveFile.arr) = SavedRecord

C3_Witness ==
    /\ LocalMode
    /\ call.op = "save_trade"
    /\ call.fault = "partial"
    /\ ret.bool = FALSE
    /\ files.trades = Corrupt
    /\ Len(okTrades) > 0

\* C4: in local mode with a single writer the trades file, as long as it is
\* a JSON array, is the array found at start followed by the data of every
\* successful save_trade in call order: each successful call appends exactly
\* one entry at the end and leaves the earlier ones unchanged, and N
\* successful calls from an absent file leave exactly those N entries.
C4_LocalTradesAppendOnly ==
    (LocalMode /\ files.trades.state # "corrupt")
    => /\ files.trades.arr = files0.trades.arr \o okTrades
       /\ files0.trades = Absent => Len(files.trades.arr) = Len(okTrades)

C4_Witness ==
    /\ LocalMode
    /\ files0.trades = Absent
    /\ Len(okTrades) = 3
    /\ okTrades[1] # okTrades[2]
    /\ files.trades = Array(okTrades)

\* C5: in local mode save_portfolio_state appends and never replaces: the
\* portfolio file, as long as it is a JSON array, holds one entry per
\* successful call in call order; and no save_portfolio_state call changes
\* the trades file.
C5_LocalPortfolioAppends ==
    /\ [](( LocalMode /\ files.portfolio.state # "corrupt")
            => files.portfolio.arr = files0.portfolio.arr \o okPortfolio)
    /\ [][(call'.op = "save_portfolio_state" /\ ncalls' = ncalls + 1)
            => files'.trades = files.trades]_vars

C5_Witness ==
    /\ LocalMode
    /\ Len(okPortfolio) = 2
    /\ files.portfolio = Array(okPortfolio)
    /\ okPortfolio[1].last_updated < okPortfolio[2].last_updated

C7_ExactlyOneModeFixed ==
    phase # "new" => (Mode \in {"remote", "local"} /\ Mode = mode0)

\* C8: in remote mode (collections empty at start) the portfolio collection
\* holds, after any successful save_portfolio_state, exactly the document
\* portfolio/current with the most recently saved snapshot; every successful
\* save_trade adds one document, so the trades collection has one document
\* per successful call, equal records included.
C8_RemoteOverwriteAndAdd ==
    RemoteMode =>
       /\ okPortfolio # <<>> =>
             remotePortfolio = {[id |-> "current", doc |-> Last(okPortfolio)]}
       /\ Cardinality(remoteTrades) = Len(okTrades)
       /\ \A i \in 1..Len(okTrades) : [id |-> i, doc |-> okTrades[i]] \in remoteTrades

C8_Witness ==
    /\ RemoteMode
    /\ Len(okPortfolio) = 2
    /\ okPortfolio[1] # okPortfolio[2]
    /\ Len(okTrades) = 2
    /\ okTrades[1] = okTrades[2]
    /\ Cardinality(remoteTrades) = 2

\* C9: to_dict returns a mapping with every field of the record, each equal
\* to the record's, except that metadata is always a mapping: the empty one
\* when the record has None or empty metadata, the given one otherwise.
C9_ToDictMetadataNeverNull ==
    data # None =>
       /\ DOMAIN data = Fields
       /\ \A f \in Fields \ {"metadata"} : data[f] = self[f]
       /\ data.metadata # None
       /\ data.metadata.kind = "dict"
       /\ data.metadata = IF self.metadata \in {None, EmptyDict}
                          THEN EmptyDict ELSE self.metadata

C9_Witness ==
    /\ data # None
    /\ self.metadata = None
    /\ data.metadata = EmptyDict

\* C10: two writers calling save_trade on one fallback path can lose an
\* update: when both calls have returned true after reading the same array,
\* the file is that array plus the record of one of the two writers only,
\* so it holds fewer new entries than there were successful saves.
BothReturnedTrue == \A w \in Writers : writer[w].pc = "done" /\ writer[w].ret = TRUE

C10_LostUpdate ==
    (BothReturnedTrue /\ writer[1].existing = writer[2].existing)
    => /\ files.trades.state = "array"
       /\ \E w \in Writers :
             files.trades.arr = Append(writer[w].existing, writer[w].data)
       /\ Len(files.trades.arr) = Len(writer[1].existing) + 1

C10_Witness ==
    /\ BothReturnedTrue
    /\ files0.trades = Absent
    /\ writer[1].existing = <<>> /\ writer[2].existing = <<>>
    /\ writer[1].data # writer[2].data
    /\ Len(okTrades) = 2
    /\ Len(files.trades.arr) = 1
====
